---- MODULE Spec2Model ----
(***************************************************************************)
(* A model of CGAL's Arr_Bezier_curve_traits_2: the facade's manual        *)
(* ownership of its Bezier_cache / Intersection_map pair, the functor      *)
(* objects it hands out, and the Make_x_monotone_2 decomposition.          *)
(*                                                                         *)
(* Parameter values t in [0,1] live on a grid 0..TDen, where 0 stands for  *)
(* Rational(0) and TDen for Rational(1).  Heap objects are named by the    *)
(* facade instance whose default constructor allocated them.               *)
(***************************************************************************)
EXTENDS Integers, Sequences, FiniteSets, TLC

\* ------------------------------------------------------------------ bounds
NInst == 3          \* facade instances that ever exist
NShare == 2         \* facade instances of the sharing specification
NCurves == 4        \* curves decomposed in the decomposition specification
TDen == 4           \* grid denominator: parameters are 0/TDen .. TDen/TDen
MaxCand == 3        \* candidates returned by the bounding collaborator
MaxCount == 2       \* saturation of the exact-computation counters

Insts == 1..NInst
Tables == 1..NInst
Curves == 1..NCurves
ShareInsts == 1..NShare
Interior == 1..(TDen - 1)

NullPtr == 0
NoEntry == [present |-> FALSE, list |-> <<>>]
Entry(l) == [present |-> TRUE, list |-> l]
NoFunctor == [kind |-> "none", p_cache |-> NullPtr, p_imap |-> NullPtr]

VARIABLES
  life,        \* instance -> "unborn" | "live" | "dead"
  _cache,      \* instance -> Bezier_cache*      (NullPtr when not live)
  _inter_map,  \* instance -> Intersection_map*  (NullPtr when not live)
  _owner,      \* instance -> bool
  heapC,       \* Bezier_cache objects:     "free" | "alloc" | "deleted" | "deleted2"
  heapM,       \* Intersection_map objects: "free" | "alloc" | "deleted" | "deleted2"
  vt,          \* cache -> curve id -> vertical tangency list or NoEntry
  solves,      \* cache -> curve id -> number of exact root isolations done
  ix,          \* cache -> curve-id pair -> intersection parameter list or NoEntry
  isolves,     \* cache -> curve-id pair -> number of exact system solves done
  inter_points, \* intersection map -> curve-id pair -> materialized points or NoEntry
  fun,         \* the functor object most recently handed out
  out,         \* what the last operator() wrote through its output iterator
  ret,         \* how often the returned output iterator had been advanced
  last,        \* record of the last operator() call
  arg,         \* the call the client of the decomposition is about to issue
  points       \* the Point_2 objects the client compares: id -> representation

vars == <<life, _cache, _inter_map, _owner, heapC, heapM, vt, solves,
          ix, isolves, inter_points, fun, out, ret, last, arg, points>>

lifeVars == <<life, _cache, _inter_map, _owner>>
heapVars == <<heapC, heapM>>
cacheVars == <<vt, solves>>
interVars == <<ix, isolves, inter_points>>
callVars == <<out, ret, last>>

EmptyTable == [B \in Curves |-> NoEntry]
NoSolves == [B \in Curves |-> 0]

\* Unordered pairs of distinct curve ids, smaller id first.
Pairs == { key \in Curves \X Curves : key[1] < key[2] }
EmptyPairTable == [key \in Pairs |-> NoEntry]
NoPairSolves == [key \in Pairs |-> 0]
NoCall == [op |-> "none"]
NoArg == [B |-> 0, tang_bounds |-> <<>>]
NoPoints == <<>>

\* ------------------------------------------------------- heap primitives
\* operator delete on a heap object: a second delete is recorded as such.
Delete(heap, p) ==
  [heap EXCEPT ![p] = IF @ = "alloc" THEN "deleted" ELSE "deleted2"]

\* ------------------------------------------------ facade: special members
\* Arr_Bezier_curve_traits_2 ()
DefaultConstruct(i) ==
  /\ life[i] = "unborn"
  /\ heapC[i] = "free" /\ heapM[i] = "free"
  /\ life' = [life EXCEPT ![i] = "live"]
  /\ heapC' = [heapC EXCEPT ![i] = "alloc"]
  /\ heapM' = [heapM EXCEPT ![i] = "alloc"]
  /\ vt' = [vt EXCEPT ![i] = EmptyTable]
  /\ solves' = [solves EXCEPT ![i] = NoSolves]
  /\ ix' = [ix EXCEPT ![i] = EmptyPairTable]
  /\ isolves' = [isolves EXCEPT ![i] = NoPairSolves]
  /\ inter_points' = [inter_points EXCEPT ![i] = EmptyPairTable]
  /\ _cache' = [_cache EXCEPT ![i] = i]
  /\ _inter_map' = [_inter_map EXCEPT ![i] = i]
  /\ _owner' = [_owner EXCEPT ![i] = TRUE]
  /\ UNCHANGED <<arg, points, fun, out, ret, last>>

\* Mutant: the copy gets tables of its own instead of the source's.
CopyConstruct_deep(j, i) ==
  /\ life[j] = "unborn" /\ life[i] = "live"
  /\ heapC[j] = "free" /\ heapM[j] = "free"
  /\ life' = [life EXCEPT ![j] = "live"]
  /\ heapC' = [heapC EXCEPT ![j] = "alloc"]
  /\ heapM' = [heapM EXCEPT ![j] = "alloc"]
  /\ vt' = [vt EXCEPT ![j] = vt[_cache[i]]]
  /\ solves' = [solves EXCEPT ![j] = solves[_cache[i]]]
  /\ ix' = [ix EXCEPT ![j] = ix[_cache[i]]]
  /\ isolves' = [isolves EXCEPT ![j] = isolves[_cache[i]]]
  /\ inter_points' = [inter_points EXCEPT ![j] = inter_points[_inter_map[i]]]
  /\ _cache' = [_cache EXCEPT ![j] = j]
  /\ _inter_map' = [_inter_map EXCEPT ![j] = j]
  /\ _owner' = [_owner EXCEPT ![j] = TRUE]
  /\ UNCHANGED <<arg, points, fun, out, ret, last>>

\* Mutant: the copy takes the owner flag of the source along with its
\* table pointers.
CopyConstruct_owner(j, i) ==
  /\ life[j] = "unborn" /\ life[i] = "live"
  /\ life' = [life EXCEPT ![j] = "live"]
  /\ _cache' = [_cache EXCEPT ![j] = _cache[i]]
  /\ _inter_map' = [_inter_map EXCEPT ![j] = _inter_map[i]]
  /\ _owner' = [_owner EXCEPT ![j] = _owner[i]]
  /\ UNCHANGED <<arg, points, interVars, heapVars, cacheVars, fun, callVars>>

\* Arr_Bezier_curve_traits_2 (const Self& tr)
CopyConstruct(j, i) ==
  /\ life[j] = "unborn" /\ life[i] = "live"
  /\ life' = [life EXCEPT ![j] = "live"]
  /\ _cache' = [_cache EXCEPT ![j] = _cache[i]]
  /\ _inter_map' = [_inter_map EXCEPT ![j] = _inter_map[i]]
  /\ _owner' = [_owner EXCEPT ![j] = FALSE]
  /\ UNCHANGED <<arg, points, interVars, heapVars, cacheVars, fun, callVars>>

\* Mutant: assignment copies the owner flag of the source as well.
Assign_owner(j, i) ==
  /\ life[j] = "live" /\ life[i] = "live"
  /\ IF j = i
       THEN UNCHANGED <<_cache, _inter_map, _owner>>
       ELSE /\ _cache' = [_cache EXCEPT ![j] = _cache[i]]
            /\ _inter_map' = [_inter_map EXCEPT ![j] = _inter_map[i]]
            /\ _owner' = [_owner EXCEPT ![j] = _owner[i]]
  /\ UNCHANGED <<arg, points, interVars, life, heapVars, cacheVars, fun, callVars>>

\* Self& operator= (const Self& tr)
Assign(j, i) ==
  /\ life[j] = "live" /\ life[i] = "live"
  /\ IF j = i
       THEN UNCHANGED <<_cache, _inter_map, _owner>>
       ELSE /\ _cache' = [_cache EXCEPT ![j] = _cache[i]]
            /\ _inter_map' = [_inter_map EXCEPT ![j] = _inter_map[i]]
            /\ _owner' = [_owner EXCEPT ![j] = FALSE]
  /\ UNCHANGED <<arg, points, interVars, life, heapVars, cacheVars, fun, callVars>>

\* Mutant: the destructor deletes the tables whether or not it owns them.
Destroy_always(i) ==
  /\ life[i] = "live"
  /\ life' = [life EXCEPT ![i] = "dead"]
  /\ heapC' = Delete(heapC, _cache[i])
  /\ heapM' = Delete(heapM, _inter_map[i])
  /\ vt' = [vt EXCEPT ![_cache[i]] = EmptyTable]
  /\ solves' = [solves EXCEPT ![_cache[i]] = NoSolves]
  /\ ix' = [ix EXCEPT ![_cache[i]] = EmptyPairTable]
  /\ isolves' = [isolves EXCEPT ![_cache[i]] = NoPairSolves]
  /\ inter_points' = [inter_points EXCEPT ![_inter_map[i]] = EmptyPairTable]
  /\ _cache' = [_cache EXCEPT ![i] = NullPtr]
  /\ _inter_map' = [_inter_map EXCEPT ![i] = NullPtr]
  /\ _owner' = [_owner EXCEPT ![i] = FALSE]
  /\ UNCHANGED <<arg, points, fun, callVars>>

\* ~Arr_Bezier_curve_traits_2 ()
Destroy(i) ==
  /\ life[i] = "live"
  /\ life' = [life EXCEPT ![i] = "dead"]
  /\ IF _owner[i]
       THEN /\ heapC' = Delete(heapC, _cache[i])
            /\ heapM' = Delete(heapM, _inter_map[i])
            /\ vt' = [vt EXCEPT ![_cache[i]] = EmptyTable]
            /\ solves' = [solves EXCEPT ![_cache[i]] = NoSolves]
            /\ ix' = [ix EXCEPT ![_cache[i]] = EmptyPairTable]
            /\ isolves' = [isolves EXCEPT ![_cache[i]] = NoPairSolves]
            /\ inter_points' = [inter_points EXCEPT ![_inter_map[i]] = EmptyPairTable]
       ELSE UNCHANGED <<heapVars, cacheVars, interVars>>
  /\ _cache' = [_cache EXCEPT ![i] = NullPtr]
  /\ _inter_map' = [_inter_map EXCEPT ![i] = NullPtr]
  /\ _owner' = [_owner EXCEPT ![i] = FALSE]
  /\ UNCHANGED <<arg, points, fun, callVars>>

\* ------------------------------------------------ facade: functor getters
\* Make_x_monotone_2 (Bezier_cache *cache) : p_cache (cache)
Make_x_monotone_2(cache) ==
  [kind |-> "Make_x_monotone_2", p_cache |-> cache, p_imap |-> NullPtr]

\* Intersect_2 (Bezier_cache *cache, Intersection_map *imap)
Intersect_2(cache, imap) ==
  [kind |-> "Intersect_2", p_cache |-> cache, p_imap |-> imap]

\* Make_x_monotone_2 make_x_monotone_2_object ()
make_x_monotone_2_object(i) ==
  /\ life[i] = "live"
  /\ fun' = Make_x_monotone_2(_cache[i])
  /\ UNCHANGED <<arg, points, interVars, lifeVars, heapVars, cacheVars, callVars>>

\* Intersect_2 intersect_2_object ()
intersect_2_object(i) ==
  /\ life[i] = "live"
  /\ fun' = Intersect_2(_cache[i], _inter_map[i])
  /\ UNCHANGED <<arg, points, interVars, lifeVars, heapVars, cacheVars, callVars>>

\* ------------------------------------------------- points, arcs, curves
NoBBox == 0

\* Point_2 (): no originator, no bounding box yet.
DefaultPoint ==
  [exact |-> FALSE, nt |-> "none", curve |-> 0, t |-> 0,
   originators |-> <<>>, bbox |-> NoBBox]

\* Point_2 (B, t0) with a Rational parameter (an exact point of B).
Point_2_Rational(B, t0) ==
  [exact |-> TRUE, nt |-> "Rational", curve |-> B, t |-> t0,
   originators |-> <<>>, bbox |-> NoBBox]

\* Point_2 (B, *it) with an Algebraic parameter taken from the cache.
Point_2_Algebraic(B, t0) ==
  [exact |-> TRUE, nt |-> "Algebraic", curve |-> B, t |-> t0,
   originators |-> <<>>, bbox |-> NoBBox]

\* Point_2::Originator (B, bound)
Originator(B, bound) == [curve |-> B, bound |-> bound]

\* pt.add_originator (o)
add_originator(pt, o) == [pt EXCEPT !.originators = Append(@, o)]

\* pt.set_bbox (bbox)
set_bbox(pt, bbox) == [pt EXCEPT !.bbox = bbox]

\* X_monotone_curve_2 (B, ps, pt, cache): the arc of B from ps to pt.
X_monotone_curve_2(B, ps, pt, cache) ==
  [curve |-> B, ps |-> ps, pt |-> pt, cache |-> cache]

\* ------------------------------------------- the bounding collaborator
PointTypes == {"RATIONAL_PT", "VERTICAL_TANGENCY_PT"}

\* Bez_point_bound: a parameter bound strictly inside (0,1); a bound of
\* type RATIONAL_PT has collapsed to one value.
Bez_point_bound ==
  { b \in [t_min : Interior, t_max : Interior,
           can_refine : BOOLEAN, point_type : PointTypes] :
      /\ b.t_min <= b.t_max
      /\ (b.point_type = "RATIONAL_PT" => b.t_min = b.t_max) }

Disjoint(b1, b2) == b1.t_max < b2.t_min \/ b2.t_max < b1.t_min

\* The k-th pair of a list carries bounding box k.
MkTangPairs(bs) == [k \in 1..Len(bs) |-> [first |-> bs[k], second |-> k]]

\* bound_tr.vertical_tangency_points (cpts, 0, 1, tang_bounds): every list
\* of at most MaxCand pairwise disjoint bounds, in any order.
vertical_tangency_points ==
  { MkTangPairs(bs) :
      bs \in { s \in UNION { [1..n -> Bez_point_bound] : n \in 0..MaxCand } :
                 \A k1, k2 \in 1..Len(s) :
                    k1 # k2 => Disjoint(s[k1], s[k2]) } }

\* ------------------------------------------------------ the exact kernel
RECURSIVE Pow2(_)
Pow2(n) == IF n = 0 THEN 1 ELSE 2 * Pow2(n - 1)

RECURSIVE RootsFrom(_, _)
RootsFrom(B, t) ==
  IF t > TDen - 1 THEN <<>>
  ELSE IF ((B - 1) \div Pow2(t - 1)) % 2 = 1
         THEN <<t>> \o RootsFrom(B, t + 1)
         ELSE RootsFrom(B, t + 1)

\* The roots of X'(t) in (0,1) of curve B, ascending: curve B has a
\* vertical tangency at grid point t iff bit t-1 of B-1 is set.
x_polynomial_roots(B) == RootsFrom(B, 1)

\* -------------------------------------------------------- Bezier_cache
Saturate(n) == IF n < MaxCount THEN n + 1 ELSE MaxCount

\* A cache that holds one tangency list only: storing a list drops the others.
get_vertical_tangencies_evict(table, count, B) ==
  IF table[B].present
    THEN [vt_list |-> table[B].list, table |-> table, count |-> count]
    ELSE LET roots == x_polynomial_roots(B)
         IN  [vt_list |-> roots,
              table |-> [C \in DOMAIN table |->
                           IF C = B THEN Entry(roots) ELSE NoEntry],
              count |-> [count EXCEPT ![B] = Saturate(@)]]

\* A cache that isolates the roots again on every query.
get_vertical_tangencies_recompute(table, count, B) ==
  LET roots == x_polynomial_roots(B)
  IN  [vt_list |-> roots,
       table |-> [table EXCEPT ![B] = Entry(roots)],
       count |-> [count EXCEPT ![B] = Saturate(@)]]

\* cache.get_vertical_tangencies (id, polyX, normX): the memoized list and
\* the cache after the call.
get_vertical_tangencies(table, count, B) ==
  IF table[B].present
    THEN [vt_list |-> table[B].list, table |-> table, count |-> count]
    ELSE LET roots == x_polynomial_roots(B)
         IN  [vt_list |-> roots,
              table |-> [table EXCEPT ![B] = Entry(roots)],
              count |-> [count EXCEPT ![B] = Saturate(@)]]

\* ----------------------------------------------------- output iterator
\* An output iterator is the sequence written so far and the number of
\* times the iterator has been advanced; *oi = x writes at the current
\* position.
NewOutput == [seq |-> <<>>, pos |-> 0]

Write(oi, x) ==
  [oi EXCEPT !.seq = [k \in 1..(IF oi.pos + 1 > Len(oi.seq)
                                  THEN oi.pos + 1 ELSE Len(oi.seq)) |->
                        IF k = oi.pos + 1 THEN x ELSE oi.seq[k]]]

Advance(oi) == [oi EXCEPT !.pos = @ + 1]

\* ------------------------------------ Make_x_monotone_2::operator()
\* Mutant: the scan locates the bound with maximal t-value.
RECURSIVE ScanMin_larger(_, _, _)
ScanMin_larger(tang_bounds, iter, it_min) ==
  IF iter > Len(tang_bounds) THEN it_min
  ELSE IF tang_bounds[iter].first.t_min > tang_bounds[it_min].first.t_min
         THEN ScanMin_larger(tang_bounds, iter + 1, iter)
         ELSE ScanMin_larger(tang_bounds, iter + 1, it_min)

\* Locate the bound with minimal t-value: the first of the minima.
RECURSIVE ScanMin(_, _, _)
ScanMin(tang_bounds, iter, it_min) ==
  IF iter > Len(tang_bounds) THEN it_min
  ELSE IF tang_bounds[iter].first.t_min < tang_bounds[it_min].first.t_min
         THEN ScanMin(tang_bounds, iter + 1, iter)
         ELSE ScanMin(tang_bounds, iter + 1, it_min)

\* Mutant: the scan for the minimum is skipped, the front bound is taken.
LocateMin_front(tang_bounds) == 1

LocateMin(tang_bounds) == ScanMin(tang_bounds, 2, 1)

\* tang_bounds.erase (it_min)
Erase(s, k) == [n \in 1..(Len(s) - 1) |-> IF n < k THEN s[n] ELSE s[n + 1]]

\* Mutant: every bound, collapsed or not, becomes an originator.
TangencyPoint_originator(B, bound, bbox) ==
  set_bbox(add_originator(DefaultPoint, Originator(B, bound)), bbox)

\* Construct the tangency point of a refinable bound.
TangencyPoint(B, bound, bbox) ==
  LET pt == IF bound.point_type = "RATIONAL_PT"
              THEN Point_2_Rational(B, bound.t_min)
              ELSE add_originator(DefaultPoint, Originator(B, bound))
  IN  set_bbox(pt, bbox)

\* Mutant: a bound collapsed to a rational value also ends the loop with
\* app_ok = false.
RECURSIVE CandidateLoop_rational(_, _, _)
CandidateLoop_rational(B, tang_bounds, tang_points) ==
  IF tang_bounds = <<>>
    THEN [app_ok |-> TRUE, tang_points |-> tang_points]
    ELSE LET it_min == LocateMin(tang_bounds)
             bound == tang_bounds[it_min].first
             bbox == tang_bounds[it_min].second
         IN  IF ~ bound.can_refine \/ bound.point_type = "RATIONAL_PT"
               THEN [app_ok |-> FALSE, tang_points |-> tang_points]
               ELSE CandidateLoop_rational(B, Erase(tang_bounds, it_min),
                                           Append(tang_points,
                                                  TangencyPoint(B, bound, bbox)))

\* Mutant: an unrefinable bound is dropped and the loop goes on with the
\* points collected so far.
RECURSIVE CandidateLoop_skip(_, _, _)
CandidateLoop_skip(B, tang_bounds, tang_points) ==
  IF tang_bounds = <<>>
    THEN [app_ok |-> TRUE, tang_points |-> tang_points]
    ELSE LET it_min == LocateMin(tang_bounds)
             bound == tang_bounds[it_min].first
             bbox == tang_bounds[it_min].second
         IN  IF ~ bound.can_refine
               THEN CandidateLoop_skip(B, Erase(tang_bounds, it_min),
                                       tang_points)
               ELSE CandidateLoop_skip(B, Erase(tang_bounds, it_min),
                                       Append(tang_points,
                                              TangencyPoint(B, bound, bbox)))

\* while (! tang_bounds.empty()) ...: app_ok and the points collected.
RECURSIVE CandidateLoop(_, _, _)
CandidateLoop(B, tang_bounds, tang_points) ==
  IF tang_bounds = <<>>
    THEN [app_ok |-> TRUE, tang_points |-> tang_points]
    ELSE LET it_min == LocateMin(tang_bounds)
             bound == tang_bounds[it_min].first
             bbox == tang_bounds[it_min].second
         IN  IF ~ bound.can_refine
               THEN [app_ok |-> FALSE, tang_points |-> tang_points]
               ELSE CandidateLoop(B, Erase(tang_bounds, it_min),
                                  Append(tang_points,
                                         TangencyPoint(B, bound, bbox)))

\* Mutant: the subcurve ending at t = 1 is not written.
RECURSIVE FastArcs_nofinal(_, _, _, _, _)
FastArcs_nofinal(B, tang_points, p0, cache, oi) ==
  IF tang_points = <<>>
    THEN oi
    ELSE FastArcs_nofinal(B, Tail(tang_points), Head(tang_points), cache,
                          Advance(Write(oi, X_monotone_curve_2(
                                              B, p0, Head(tang_points), cache))))

\* if (app_ok) { ... return (oi); }
RECURSIVE FastArcs(_, _, _, _, _)
FastArcs(B, tang_points, p0, cache, oi) ==
  IF tang_points = <<>>
    THEN Write(oi, X_monotone_curve_2(B, p0, Point_2_Rational(B, TDen), cache))
    ELSE FastArcs(B, Tail(tang_points), Head(tang_points), cache,
                  Advance(Write(oi, X_monotone_curve_2(B, p0, Head(tang_points),
                                                       cache))))

\* Mutant: the exact path gives up after the first tangency point.
ExactArcs_truncated(B, vt_list, p0, cache, oi) ==
  IF vt_list = <<>>
    THEN Write(oi, X_monotone_curve_2(B, p0, Point_2_Rational(B, TDen), cache))
    ELSE Advance(Write(oi, X_monotone_curve_2(
                             B, p0, Point_2_Algebraic(B, Head(vt_list)), cache)))

\* for (it = vt_list.begin(); ...) ... final subcurve ... return (oi);
RECURSIVE ExactArcs(_, _, _, _, _)
ExactArcs(B, vt_list, p0, cache, oi) ==
  IF vt_list = <<>>
    THEN Write(oi, X_monotone_curve_2(B, p0, Point_2_Rational(B, TDen), cache))
    ELSE LET p1 == Point_2_Algebraic(B, Head(vt_list))
         IN  ExactArcs(B, Tail(vt_list), p1, cache,
                       Advance(Write(oi, X_monotone_curve_2(B, p0, p1, cache))))

\* OutputIterator operator() (const Curve_2& B, OutputIterator oi), called
\* on the functor held in fun with the collaborator answering tang_bounds.
MakeXMonotone(B, tang_bounds) ==
  /\ fun.kind = "Make_x_monotone_2"
  /\ heapC[fun.p_cache] = "alloc"
  /\ LET p_cache == fun.p_cache
         loop == CandidateLoop(B, tang_bounds, <<>>)
         p0 == Point_2_Rational(B, 0)
     IN  IF loop.app_ok
           THEN LET oi == FastArcs(B, loop.tang_points, p0, p_cache, NewOutput)
                IN  /\ out' = oi.seq
                    /\ ret' = oi.pos
                    /\ last' = [op |-> "Make_x_monotone_2", B |-> B,
                                tang_bounds |-> tang_bounds, app_ok |-> TRUE,
                                p_cache |-> p_cache, vt_calls |-> 0,
                                hit |-> FALSE, vt_list |-> <<>>]
                    /\ UNCHANGED cacheVars
           ELSE LET q == get_vertical_tangencies(vt[p_cache], solves[p_cache], B)
                    oi == ExactArcs(B, q.vt_list, p0, p_cache, NewOutput)
                IN  /\ vt' = [vt EXCEPT ![p_cache] = q.table]
                    /\ solves' = [solves EXCEPT ![p_cache] = q.count]
                    /\ out' = oi.seq
                    /\ ret' = oi.pos
                    /\ last' = [op |-> "Make_x_monotone_2", B |-> B,
                                tang_bounds |-> tang_bounds, app_ok |-> FALSE,
                                p_cache |-> p_cache, vt_calls |-> 1,
                                hit |-> vt[p_cache][B].present,
                                vt_list |-> q.vt_list]
  /\ UNCHANGED <<arg, points, interVars, lifeVars, heapVars, fun>>

\* ------------------------------------- X_monotone_curve_2::intersect
RECURSIVE SolveFrom(_, _)
SolveFrom(key, s) ==
  IF s > TDen - 1 THEN <<>>
  ELSE IF (s + key[1] + key[2]) % 2 = 0
         THEN <<<<s, TDen - s>>>> \o SolveFrom(key, s + 1)
         ELSE SolveFrom(key, s + 1)

\* The exact kernel's solutions of {X1(s) = X2(t), Y1(s) = Y2(t)} for the
\* curve pair key: parameter pairs <<s, t>>, ascending in s.  The curves of
\* the pair meet where s + id1 + id2 is even, at t = 1 - s.
solve_system(key) == SolveFrom(key, 1)

\* A cache that solves the system again on every query.
get_intersections_resolve(table, count, key) ==
  LET sols == solve_system(key)
  IN  [list |-> sols,
       table |-> [table EXCEPT ![key] = Entry(sols)],
       count |-> [count EXCEPT ![key] = Saturate(@)]]

\* cache.get_intersections (id1, ..., id2, ...): the memoized list of the
\* unordered pair and the cache after the call.
get_intersections(table, count, key) ==
  IF table[key].present
    THEN [list |-> table[key].list, table |-> table, count |-> count]
    ELSE LET sols == solve_system(key)
         IN  [list |-> sols,
              table |-> [table EXCEPT ![key] = Entry(sols)],
              count |-> [count EXCEPT ![key] = Saturate(@)]]

\* The unordered pair of two curve ids.
Key(a, b) == IF a < b THEN <<a, b>> ELSE <<b, a>>

\* An intersection point of the pair: it lies on both curves.
ExactBound(t) ==
  [t_min |-> t, t_max |-> t, can_refine |-> FALSE,
   point_type |-> "INTERSECTION_PT"]

IntersectionPoint(key, st) ==
  [exact |-> TRUE, nt |-> "Algebraic", curve |-> key[1], t |-> st[1],
   originators |-> <<Originator(key[1], ExactBound(st[1])),
                     Originator(key[2], ExactBound(st[2]))>>,
   bbox |-> NoBBox]

\* The parameter of an intersection point on curve B.
ParamOn(p, B) ==
  IF p.originators[1].curve = B THEN p.originators[1].bound.t_min
  ELSE p.originators[2].bound.t_min

\* The endpoints of an arc in parameter order.
LoPoint(cv) == IF cv.ps.t <= cv.pt.t THEN cv.ps ELSE cv.pt
HiPoint(cv) == IF cv.ps.t <= cv.pt.t THEN cv.pt ELSE cv.ps

InRange(cv, t) == LoPoint(cv).t <= t /\ t <= HiPoint(cv).t

\* cv1.intersect (cv2, inter_map, cache, oi) on two arcs of one curve: the
\* overlapping sub-arc, once.
Overlap(cv1, cv2) ==
  LET lo == IF LoPoint(cv1).t >= LoPoint(cv2).t THEN LoPoint(cv1)
            ELSE LoPoint(cv2)
      hi == IF HiPoint(cv1).t <= HiPoint(cv2).t THEN HiPoint(cv1)
            ELSE HiPoint(cv2)
  IN  IF lo.t < hi.t
        THEN <<X_monotone_curve_2(cv1.curve, lo, hi, cv1.cache)>>
        ELSE <<>>

\* OutputIterator Intersect_2::operator() (cv1, cv2, oi), called on the
\* functor held in fun.
Intersect(cv1, cv2) ==
  /\ fun.kind = "Intersect_2"
  /\ heapC[fun.p_cache] = "alloc" /\ heapM[fun.p_imap] = "alloc"
  /\ LET p_cache == fun.p_cache
         p_imap == fun.p_imap
     IN  IF cv1.curve = cv2.curve
           THEN /\ out' = Overlap(cv1, cv2)
                /\ ret' = Len(out')
                /\ last' = [op |-> "Intersect_2", cv1 |-> cv1, cv2 |-> cv2,
                            p_cache |-> p_cache, p_imap |-> p_imap,
                            solved |-> FALSE, list |-> <<>>]
                /\ UNCHANGED interVars
           ELSE LET key == Key(cv1.curve, cv2.curve)
                    q == get_intersections(ix[p_cache], isolves[p_cache], key)
                    pts == IF inter_points[p_imap][key].present
                             THEN inter_points[p_imap][key].list
                             ELSE [k \in 1..Len(q.list) |->
                                     IntersectionPoint(key, q.list[k])]
                IN  /\ ix' = [ix EXCEPT ![p_cache] = q.table]
                    /\ isolves' = [isolves EXCEPT ![p_cache] = q.count]
                    /\ inter_points' =
                         [inter_points EXCEPT ![p_imap][key] = Entry(pts)]
                    /\ out' = SelectSeq(pts, LAMBDA p :
                                /\ InRange(cv1, ParamOn(p, cv1.curve))
                                /\ InRange(cv2, ParamOn(p, cv2.curve)))
                    /\ ret' = Len(out')
                    /\ last' = [op |-> "Intersect_2", cv1 |-> cv1, cv2 |-> cv2,
                                p_cache |-> p_cache, p_imap |-> p_imap,
                                solved |-> ~ ix[p_cache][key].present,
                                list |-> q.list]
  /\ UNCHANGED <<arg, points, lifeVars, heapVars, cacheVars, fun>>

\* ---------------------------------------- Point_2 comparison predicates
\* Compare_x_2 (const Bezier_cache *cache) : p_cache (cache)
Compare_x_2(cache) ==
  [kind |-> "Compare_x_2", p_cache |-> cache, p_imap |-> NullPtr]

\* Compare_xy_2 (const Bezier_cache *cache) : p_cache (cache)
Compare_xy_2(cache) ==
  [kind |-> "Compare_xy_2", p_cache |-> cache, p_imap |-> NullPtr]

\* Compare_x_2 compare_x_2_object () const
compare_x_2_object(i) ==
  /\ life[i] = "live"
  /\ fun' = Compare_x_2(_cache[i])
  /\ UNCHANGED <<arg, points, interVars, lifeVars, heapVars, cacheVars,
                 callVars>>

\* Compare_xy_2 compare_xy_2_object () const
compare_xy_2_object(i) ==
  /\ life[i] = "live"
  /\ fun' = Compare_xy_2(_cache[i])
  /\ UNCHANGED <<arg, points, interVars, lifeVars, heapVars, cacheVars,
                 callVars>>

\* The number of vertical tangencies of curve B at parameters <= t.
Turns(B, t) ==
  LET roots == x_polynomial_roots(B)
  IN  Cardinality({ k \in 1..Len(roots) : roots[k] <= t })

\* The coordinates of B(t) on the grid: X runs right from t = 0 and turns
\* at every vertical tangency, Y grows with t.
RECURSIVE XFrom0(_, _)
XFrom0(B, t) ==
  IF t = 0 THEN 0
  ELSE XFrom0(B, t - 1) + (IF Turns(B, t - 1) % 2 = 0 THEN 1 ELSE 0 - 1)

XTable == [B \in Curves |-> [t \in 0..TDen |-> XFrom0(B, t)]]

X(B, t) == XTable[B][t]

Y(B, t) == t + B

Coord(c, B, t) == IF c = "x" THEN X(B, t) ELSE Y(B, t)

\* The representation of a point for comparison: its curve, its parameter
\* bound [t_min, t_max], whether the bound can be refined approximately, and
\* the parameter t0 the exact kernel isolates for it.
PointReps ==
  { p \in [curve : Curves, t_min : 0..TDen, t_max : 0..TDen,
           can_refine : BOOLEAN, t0 : 0..TDen] :
      p.t_min <= p.t0 /\ p.t0 <= p.t_max }

IsExact(p) == p.t_min = p.t_max

\* The coordinate interval of a point: what its curve covers over the bound.
Box(c, p) == { Coord(c, p.curve, t) : t \in p.t_min..p.t_max }

\* Decide a comparison from the current bounds alone.
CompareBoxes(b1, b2) ==
  IF \A a \in b1, b \in b2 : a < b THEN "SMALLER"
  ELSE IF \A a \in b1, b \in b2 : a > b THEN "LARGER"
  ELSE IF Cardinality(b1) = 1 /\ b1 = b2 THEN "EQUAL"
  ELSE "UNDECIDED"

\* One refinement step of a point: a refinable bound is narrowed towards the
\* isolated parameter, an unrefinable one is replaced by the exact value.
refine(p) ==
  IF IsExact(p) THEN p
  ELSE IF ~ p.can_refine THEN [p EXCEPT !.t_min = p.t0, !.t_max = p.t0]
  ELSE [p EXCEPT !.t_min = IF p.t_min < p.t0 THEN p.t_min + 1 ELSE p.t_min,
                 !.t_max = IF p.t_max > p.t0 THEN p.t_max - 1 ELSE p.t_max]

\* Compare coordinate c of two points: decide from the bounds if they are
\* disjoint, else refine until they are disjoint or both points are exact.
RECURSIVE compare_coord(_, _, _)
compare_coord(c, p1, p2) ==
  LET r == CompareBoxes(Box(c, p1), Box(c, p2))
  IN  IF r # "UNDECIDED" \/ (IsExact(p1) /\ IsExact(p2))
        THEN [res |-> IF r = "UNDECIDED" THEN "EQUAL" ELSE r,
              p1 |-> p1, p2 |-> p2]
        ELSE compare_coord(c, refine(p1), refine(p2))

\* p1.compare_x (p2, cache)
compare_x(p1, p2) == compare_coord("x", p1, p2)

\* p1.compare_xy (p2, cache): by x, then by y.
compare_xy(p1, p2) ==
  LET cx == compare_x(p1, p2)
  IN  IF cx.res # "EQUAL" THEN cx ELSE compare_coord("y", cx.p1, cx.p2)

\* The point p has been made exact by the exact kernel to become q.
MadeExact(p, q) == ~ p.can_refine /\ ~ IsExact(p) /\ IsExact(q)

\* Comparison_result operator() (const Point_2& p1, const Point_2& p2) of
\* Compare_x_2 and Compare_xy_2, called on the functor held in fun with the
\* point objects i and j.  Making a point exact consults the cache for the
\* tangency list of its curve.
Compare(i, j) ==
  /\ fun.kind \in {"Compare_x_2", "Compare_xy_2"}
  /\ heapC[fun.p_cache] = "alloc"
  /\ i \in DOMAIN points /\ j \in DOMAIN points /\ i # j
  /\ LET p_cache == fun.p_cache
         r == IF fun.kind = "Compare_x_2"
                THEN compare_x(points[i], points[j])
                ELSE compare_xy(points[i], points[j])
         q1 == IF MadeExact(points[i], r.p1)
                 THEN get_vertical_tangencies(vt[p_cache], solves[p_cache],
                                              points[i].curve)
                 ELSE [table |-> vt[p_cache], count |-> solves[p_cache]]
         q2 == IF MadeExact(points[j], r.p2)
                 THEN get_vertical_tangencies(q1.table, q1.count,
                                              points[j].curve)
                 ELSE q1
     IN  /\ points' = [points EXCEPT ![i] = r.p1, ![j] = r.p2]
         /\ vt' = [vt EXCEPT ![p_cache] = q2.table]
         /\ solves' = [solves EXCEPT ![p_cache] = q2.count]
         /\ last' = [op |-> fun.kind, p1 |-> i, p2 |-> j, res |-> r.res,
                     refined |-> r.p1 # points[i] \/ r.p2 # points[j]]
  /\ UNCHANGED <<arg, out, ret, interVars, lifeVars, heapVars, fun>>

\* Mutant: a refinement that widens the bound by one grid step.
Refine_widen(i) ==
  /\ i \in DOMAIN points
  /\ \E lo \in {points[i].t_min - 1, points[i].t_min},
        hi \in {points[i].t_max, points[i].t_max + 1} :
       /\ 0 <= lo /\ hi <= TDen
       /\ <<lo, hi>> # <<points[i].t_min, points[i].t_max>>
       /\ points' = [points EXCEPT ![i].t_min = lo, ![i].t_max = hi]
  /\ UNCHANGED <<arg, callVars, interVars, lifeVars, heapVars, cacheVars, fun>>

\* A refinement of point i requested outside a comparison: the bound is
\* narrowed by one grid step at either end or at both, and keeps the
\* isolated parameter.
Refine(i) ==
  /\ i \in DOMAIN points
  /\ \E lo \in {points[i].t_min, points[i].t_min + 1},
        hi \in {points[i].t_max - 1, points[i].t_max} :
       /\ lo <= points[i].t0 /\ points[i].t0 <= hi
       /\ <<lo, hi>> # <<points[i].t_min, points[i].t_max>>
       /\ points' = [points EXCEPT ![i].t_min = lo, ![i].t_max = hi]
  /\ UNCHANGED <<arg, callVars, interVars, lifeVars, heapVars, cacheVars, fun>>

\* ------------------------------------------ x-monotone arc operations
\* Two exact points are the same point of a curve.
SamePoint(p, q) == p.curve = q.curve /\ p.t = q.t

\* cv.is_directed_right (): the source is to the left of the target.
is_directed_right(cv) == X(cv.curve, cv.ps.t) < X(cv.curve, cv.pt.t)

\* cv.left () / cv.right (): the lexicographically smaller / larger endpoint.
left(cv) == IF is_directed_right(cv) THEN cv.ps ELSE cv.pt
right(cv) == IF is_directed_right(cv) THEN cv.pt ELSE cv.ps

\* p lies on cv and is not one of its endpoints.
IsInterior(cv, p) ==
  /\ p.curve = cv.curve
  /\ LoPoint(cv).t < p.t /\ p.t < HiPoint(cv).t

\* cv.split (p, c1, c2): c1 ends in p on the right, c2 starts in p on the
\* left, both keep the direction of cv.
split(cv, p) ==
  IF is_directed_right(cv)
    THEN [c1 |-> [cv EXCEPT !.pt = p], c2 |-> [cv EXCEPT !.ps = p]]
    ELSE [c1 |-> [cv EXCEPT !.ps = p], c2 |-> [cv EXCEPT !.pt = p]]

\* cv1.can_merge_with (cv2): the same supporting curve, and the right end of
\* one arc is the left end of the other.
can_merge_with(cv1, cv2) ==
  /\ cv1.curve = cv2.curve
  /\ \/ SamePoint(right(cv1), left(cv2))
     \/ SamePoint(left(cv1), right(cv2))

\* Mutant: the merged arc is the first arc.
merge_first(cv1, cv2) == cv1

\* cv1.merge (cv2): cv1 extended over cv2, in the direction of cv1.
merge(cv1, cv2) ==
  IF SamePoint(right(cv1), left(cv2))
    THEN IF is_directed_right(cv1) THEN [cv1 EXCEPT !.pt = right(cv2)]
         ELSE [cv1 EXCEPT !.ps = right(cv2)]
    ELSE IF is_directed_right(cv1) THEN [cv1 EXCEPT !.ps = left(cv2)]
         ELSE [cv1 EXCEPT !.pt = left(cv2)]

\* cv1.equals (cv2, cache): the same graph, whatever the directions.
equals(cv1, cv2) ==
  /\ cv1.curve = cv2.curve
  /\ SamePoint(left(cv1), left(cv2))
  /\ SamePoint(right(cv1), right(cv2))

\* cv.flip (): source and target swapped.
flip(cv) == [cv EXCEPT !.ps = cv.pt, !.pt = cv.ps]

\* void Split_2::operator() (cv, p, c1, c2)
Split(cv, p) ==
  /\ IsInterior(cv, p)
  /\ out' = <<split(cv, p).c1, split(cv, p).c2>>
  /\ ret' = 0
  /\ last' = [op |-> "Split_2", cv |-> cv, p |-> p]
  /\ UNCHANGED <<arg, points, interVars, lifeVars, heapVars, cacheVars, fun>>

\* bool Are_mergeable_2::operator() (cv1, cv2)
AreMergeable(cv1, cv2) ==
  /\ last' = [op |-> "Are_mergeable_2", cv1 |-> cv1, cv2 |-> cv2,
              res |-> can_merge_with(cv1, cv2)]
  /\ UNCHANGED <<arg, points, out, ret, interVars, lifeVars, heapVars,
                 cacheVars, fun>>

\* void Merge_2::operator() (cv1, cv2, c)
Merge(cv1, cv2) ==
  /\ can_merge_with(cv1, cv2)
  /\ out' = <<merge(cv1, cv2)>>
  /\ ret' = 0
  /\ last' = [op |-> "Merge_2", cv1 |-> cv1, cv2 |-> cv2]
  /\ UNCHANGED <<arg, points, interVars, lifeVars, heapVars, cacheVars, fun>>

\* Mutant: the direction is taken from the parameters of the endpoints.
Compare_endpoints_xy_2_param(cv) ==
  IF cv.ps.t < cv.pt.t THEN "SMALLER" ELSE "LARGER"

\* Comparison_result Compare_endpoints_xy_2::operator() (cv)
Compare_endpoints_xy_2(cv) ==
  IF is_directed_right(cv) THEN "SMALLER" ELSE "LARGER"

\* X_monotone_curve_2 Construct_opposite_2::operator() (cv)
Construct_opposite_2(cv) == flip(cv)

\* A client calls Compare_endpoints_xy_2 on cv.
CompareEndpointsXY(cv) ==
  /\ last' = [op |-> "Compare_endpoints_xy_2", cv |-> cv,
              res |-> Compare_endpoints_xy_2(cv)]
  /\ UNCHANGED <<arg, points, out, ret, interVars, lifeVars, heapVars,
                 cacheVars, fun>>

\* A client calls Construct_opposite_2 on cv and keeps the result.
ConstructOpposite(cv) ==
  /\ out' = <<Construct_opposite_2(cv)>>
  /\ ret' = 0
  /\ last' = [op |-> "Construct_opposite_2", cv |-> cv]
  /\ UNCHANGED <<arg, points, interVars, lifeVars, heapVars, cacheVars, fun>>

\* ------------------------------------------------------- specifications
Init ==
  /\ life = [i \in Insts |-> "unborn"]
  /\ _cache = [i \in Insts |-> NullPtr]
  /\ _inter_map = [i \in Insts |-> NullPtr]
  /\ _owner = [i \in Insts |-> FALSE]
  /\ heapC = [c \in Tables |-> "free"]
  /\ heapM = [c \in Tables |-> "free"]
  /\ vt = [c \in Tables |-> EmptyTable]
  /\ solves = [c \in Tables |-> NoSolves]
  /\ ix = [c \in Tables |-> EmptyPairTable]
  /\ isolves = [c \in Tables |-> NoPairSolves]
  /\ inter_points = [c \in Tables |-> EmptyPairTable]
  /\ fun = NoFunctor
  /\ out = <<>>
  /\ ret = 0
  /\ last = NoCall
  /\ arg = NoArg
  /\ points = NoPoints

Next ==
  \/ \E i \in Insts : DefaultConstruct(i)
  \/ \E j, i \in Insts : CopyConstruct(j, i)
  \/ \E j, i \in Insts : Assign(j, i)
  \/ \E i \in Insts : Destroy(i)
  \/ \E i \in Insts : make_x_monotone_2_object(i)
  \/ \E i \in Insts : intersect_2_object(i)

\* The ownership specification: facades are constructed, copied, assigned
\* and destroyed, and hand out functor objects.
Spec == Init /\ [][Next]_vars

\* The curve decomposed in the sharing specification.
ShareCurves == {NCurves}

\* The candidate lists the collaborator answers with in the sharing
\* specification: no candidate (fast path) or one unrefinable candidate
\* (exact path).
ShareBoundLists ==
  { tb \in vertical_tangency_points :
      /\ Len(tb) <= 1
      /\ \A k \in 1..Len(tb) :
           /\ ~ tb[k].first.can_refine
           /\ tb[k].first.t_min = tb[k].first.t_max
           /\ \A t \in Interior : tb[k].first.t_min <= t
           /\ tb[k].first.point_type = "VERTICAL_TANGENCY_PT" }

\* operator() on a functor whose cache has been deleted dereferences a
\* dangling pointer: whatever is written and returned is unconstrained.
UndefinedOutputs == {<<>>, <<DefaultPoint>>}

MakeXMonotoneDangling(B) ==
  /\ fun.kind = "Make_x_monotone_2"
  /\ heapC[fun.p_cache] # "alloc"
  /\ out' \in UndefinedOutputs
  /\ ret' \in {0, Len(out')}
  /\ last' = [op |-> "undefined", B |-> B, p_cache |-> fun.p_cache]
  /\ UNCHANGED <<arg, points, interVars, lifeVars, heapVars, cacheVars, fun>>

NextShare ==
  \/ \E i \in ShareInsts : DefaultConstruct(i)
  \/ \E j, i \in ShareInsts : CopyConstruct(j, i)
  \/ \E j, i \in ShareInsts : Assign(j, i)
  \/ \E i \in ShareInsts : Destroy(i)
  \/ \E i \in ShareInsts : make_x_monotone_2_object(i)
  \/ \E i \in ShareInsts : intersect_2_object(i)
  \/ \E B \in ShareCurves, tb \in ShareBoundLists : MakeXMonotone(B, tb)
  \/ \E B \in ShareCurves : MakeXMonotoneDangling(B)

\* The sharing specification: the same facades, whose Make_x_monotone_2
\* functors are also called.
SpecShare == Init /\ [][NextShare]_vars

\* The curves and arcs of the cache specification: two curves and the arcs
\* of their exact decompositions.
CacheCurves == {NCurves - 1, NCurves}

CacheArcs ==
  UNION { LET arcs == ExactArcs(B, x_polynomial_roots(B),
                                Point_2_Rational(B, 0),
                                1, NewOutput).seq
          IN  { arcs[k] : k \in 1..Len(arcs) } : B \in CacheCurves }

\* The points compared in the cache specification: the tangency points of
\* the two curves nearest to t = 0, bounded by (0,1) and not refinable.
CachePoints ==
  [k \in {1, 2} |->
     LET B == NCurves - 2 + k
     IN  [curve |-> B, t_min |-> 0, t_max |-> TDen, can_refine |-> FALSE,
          t0 |-> x_polynomial_roots(B)[1]]]

\* The cache specification: an owning facade and a copy of it hand out
\* functors; curves are decomposed and arcs are intersected through them.
InitCache ==
  /\ life = [i \in Insts |-> IF i <= NShare THEN "live" ELSE "unborn"]
  /\ _cache = [i \in Insts |-> IF i <= NShare THEN 1 ELSE NullPtr]
  /\ _inter_map = [i \in Insts |-> IF i <= NShare THEN 1 ELSE NullPtr]
  /\ _owner = [i \in Insts |-> i = 1]
  /\ heapC = [c \in Tables |-> IF c = 1 THEN "alloc" ELSE "free"]
  /\ heapM = [c \in Tables |-> IF c = 1 THEN "alloc" ELSE "free"]
  /\ vt = [c \in Tables |-> EmptyTable]
  /\ solves = [c \in Tables |-> NoSolves]
  /\ ix = [c \in Tables |-> EmptyPairTable]
  /\ isolves = [c \in Tables |-> NoPairSolves]
  /\ inter_points = [c \in Tables |-> EmptyPairTable]
  /\ fun = NoFunctor
  /\ out = <<>>
  /\ ret = 0
  /\ last = NoCall
  /\ arg = NoArg
  /\ points = CachePoints

NextCache ==
  \/ \E i \in ShareInsts : make_x_monotone_2_object(i)
  \/ \E i \in ShareInsts : intersect_2_object(i)
  \/ \E i \in ShareInsts : compare_xy_2_object(i)
  \/ \E i, j \in {1, 2} : Compare(i, j)
  \/ \E B \in CacheCurves, tb \in ShareBoundLists : MakeXMonotone(B, tb)
  \/ \E cv1, cv2 \in CacheArcs : Intersect(cv1, cv2)

SpecCache == InitCache /\ [][NextCache]_vars

\* The curves the compared points lie on.
CmpCurves == {NCurves - 1, NCurves}

PointsOn(Cs) == { p \in PointReps : p.curve \in Cs }

\* The comparison specification: one facade hands out its comparison
\* functors; a client holds two points and compares and refines them.
InitCmp ==
  /\ life = [i \in Insts |-> IF i = 1 THEN "live" ELSE "unborn"]
  /\ _cache = [i \in Insts |-> IF i = 1 THEN 1 ELSE NullPtr]
  /\ _inter_map = [i \in Insts |-> IF i = 1 THEN 1 ELSE NullPtr]
  /\ _owner = [i \in Insts |-> i = 1]
  /\ heapC = [c \in Tables |-> IF c = 1 THEN "alloc" ELSE "free"]
  /\ heapM = [c \in Tables |-> IF c = 1 THEN "alloc" ELSE "free"]
  /\ vt = [c \in Tables |-> EmptyTable]
  /\ solves = [c \in Tables |-> NoSolves]
  /\ ix = [c \in Tables |-> EmptyPairTable]
  /\ isolves = [c \in Tables |-> NoPairSolves]
  /\ inter_points = [c \in Tables |-> EmptyPairTable]
  /\ fun = NoFunctor
  /\ out = <<>>
  /\ ret = 0
  /\ last = NoCall
  /\ arg = NoArg
  /\ points \in { <<p1, p2>> : p1 \in PointsOn(CmpCurves),
                                p2 \in PointsOn({NCurves}) }

NextCmp ==
  \/ compare_x_2_object(1)
  \/ compare_xy_2_object(1)
  \/ \E i, j \in {1, 2} : Compare(i, j)
  \/ \E i \in {1, 2} : Refine(i)

SpecCmp == InitCmp /\ [][NextCmp]_vars

\* The arcs the client of the arc operations starts from: the sub-arcs
\* between grid points of the x-monotone pieces of every curve, directed
\* either way.
ArcInputs ==
  UNION { LET roots == x_polynomial_roots(B)
          IN  { X_monotone_curve_2(B, Point_2_Rational(B, a),
                                   Point_2_Rational(B, b), 1) :
                  <<a, b>> \in { ab \in (0..TDen) \X (0..TDen) :
                                   /\ ab[1] # ab[2]
                                   /\ \A k \in 1..Len(roots) :
                                        \/ (roots[k] <= ab[1] /\ roots[k] <= ab[2])
                                        \/ (roots[k] >= ab[1] /\ roots[k] >= ab[2]) } }
          : B \in Curves }

\* The arc operations specification: a client holds an arc and a point
\* strictly inside it; it splits arcs, tests and merges the parts, compares
\* the endpoints of arcs and constructs opposite arcs.
InitArc ==
  /\ life = [i \in Insts |-> IF i = 1 THEN "live" ELSE "unborn"]
  /\ _cache = [i \in Insts |-> IF i = 1 THEN 1 ELSE NullPtr]
  /\ _inter_map = [i \in Insts |-> IF i = 1 THEN 1 ELSE NullPtr]
  /\ _owner = [i \in Insts |-> i = 1]
  /\ heapC = [c \in Tables |-> IF c = 1 THEN "alloc" ELSE "free"]
  /\ heapM = [c \in Tables |-> IF c = 1 THEN "alloc" ELSE "free"]
  /\ vt = [c \in Tables |-> EmptyTable]
  /\ solves = [c \in Tables |-> NoSolves]
  /\ ix = [c \in Tables |-> EmptyPairTable]
  /\ isolves = [c \in Tables |-> NoPairSolves]
  /\ inter_points = [c \in Tables |-> EmptyPairTable]
  /\ fun = NoFunctor
  /\ out = <<>>
  /\ ret = 0
  /\ last = NoCall
  /\ points = NoPoints
  /\ arg \in { a \in [cv : ArcInputs,
                      p : { Point_2_Rational(B, t) :
                              B \in Curves, t \in Interior }] :
                 IsInterior(a.cv, a.p) }

\* The arcs the client holds: the one it started from and the results of
\* the last operation.
Held == {arg.cv} \cup { out[k] : k \in 1..Len(out) }

NextArc ==
  \/ \E cv \in Held : Split(cv, arg.p)
  \/ \E cv \in Held : CompareEndpointsXY(cv)
  \/ \E cv \in Held : ConstructOpposite(cv)
  \/ Len(out) = 2 /\ AreMergeable(out[1], out[2])
  \/ Len(out) = 2 /\ AreMergeable(out[2], out[1])
  \/ Len(out) = 2 /\ Merge(out[1], out[2])
  \/ Len(out) = 2 /\ Merge(out[2], out[1])

SpecArc == InitArc /\ [][NextArc]_vars

\* The decomposition specification: one facade, its Make_x_monotone_2
\* functor, and a client that decomposes some curve, the collaborator
\* answering with some candidate list, any number of times.
InitMxm ==
  /\ life = [i \in Insts |-> IF i = 1 THEN "live" ELSE "unborn"]
  /\ _cache = [i \in Insts |-> IF i = 1 THEN 1 ELSE NullPtr]
  /\ _inter_map = [i \in Insts |-> IF i = 1 THEN 1 ELSE NullPtr]
  /\ _owner = [i \in Insts |-> i = 1]
  /\ heapC = [c \in Tables |-> IF c = 1 THEN "alloc" ELSE "free"]
  /\ heapM = [c \in Tables |-> IF c = 1 THEN "alloc" ELSE "free"]
  /\ vt = [c \in Tables |-> EmptyTable]
  /\ solves = [c \in Tables |-> NoSolves]
  /\ ix = [c \in Tables |-> EmptyPairTable]
  /\ isolves = [c \in Tables |-> NoPairSolves]
  /\ inter_points = [c \in Tables |-> EmptyPairTable]
  /\ fun = Make_x_monotone_2(1)
  /\ out = <<>>
  /\ ret = 0
  /\ last = NoCall
  /\ arg \in [B : Curves, tang_bounds : vertical_tangency_points]
  /\ points = NoPoints

NextMxm == MakeXMonotone(arg.B, arg.tang_bounds)

SpecMxm == InitMxm /\ [][NextMxm]_vars

\* ===================================================================
\* Properties of Make_x_monotone_2 (checked under SpecMxm)
\* ===================================================================
Called == last.op = "Make_x_monotone_2"

\* The parameter span of a point: its exact parameter, or the bound of its
\* originator.
ParamLo(p) == IF p.exact THEN p.t ELSE p.originators[1].bound.t_min
ParamHi(p) == IF p.exact THEN p.t ELSE p.originators[1].bound.t_max

Endpoints == UNION { {out[k].ps, out[k].pt} : k \in 1..Len(out) }
InteriorEndpoints == { out[k].pt : k \in 1..(Len(out) - 1) }
Unrefinable(tb) == \E k \in 1..Len(tb) : ~ tb[k].first.can_refine
Range(s) == { s[k] : k \in 1..Len(s) }

\* C1 (as claimed): the iterator returned by operator() is past the end:
\* it has been advanced once for every arc written.
C1_PastTheEnd == Called => ret = Len(out)

\* C2: the arcs written form a chain from the point at t = 0 to the point
\* at t = 1, each arc starting where the previous one ends, with strictly
\* increasing endpoint parameters.
C2_GapFreeChain ==
  Called =>
    /\ Len(out) >= 1
    /\ out[1].ps = Point_2_Rational(last.B, 0)
    /\ out[Len(out)].pt = Point_2_Rational(last.B, TDen)
    /\ \A k \in 1..(Len(out) - 1) : out[k].pt = out[k + 1].ps
    /\ \A k \in 1..Len(out) :
         /\ out[k].curve = last.B
         /\ ParamHi(out[k].ps) < ParamLo(out[k].pt)

\* C2 witness: the fast path on candidates handed over in descending order.
C2_Witness ==
  /\ Called /\ last.app_ok
  /\ Len(last.tang_bounds) >= 2
  /\ last.tang_bounds[1].first.t_min > last.tang_bounds[2].first.t_min
  /\ Len(out) >= 3

\* C3: when some candidate cannot be refined, no endpoint of a written arc
\* is built from a candidate: no endpoint has an originator or a candidate's
\* bounding box, and the interior endpoints are exactly the points of the
\* cached exact tangency list.
C3_AllOrNothing ==
  (Called /\ Unrefinable(last.tang_bounds)) =>
    /\ ~ last.app_ok
    /\ \A p \in Endpoints : p.exact /\ p.originators = <<>> /\ p.bbox = NoBBox
    /\ vt[last.p_cache][last.B].present
    /\ InteriorEndpoints =
         { Point_2_Algebraic(last.B, t) :
             t \in Range(vt[last.p_cache][last.B].list) }

\* C3 witness: a refinable candidate is consumed before the unrefinable one
\* is met, on a curve that has exact tangencies.
C3_Witness ==
  /\ Called /\ Len(last.tang_bounds) >= 2
  /\ \E k1, k2 \in 1..Len(last.tang_bounds) :
       /\ last.tang_bounds[k1].first.can_refine
       /\ ~ last.tang_bounds[k2].first.can_refine
       /\ last.tang_bounds[k1].first.t_min < last.tang_bounds[k2].first.t_min
       /\ \A k \in 1..Len(last.tang_bounds) :
            last.tang_bounds[k1].first.t_min <= last.tang_bounds[k].first.t_min
  /\ Len(out) >= 2

\* The number of tangency points the last call used.
TangenciesUsed ==
  IF last.app_ok THEN Len(last.tang_bounds)
  ELSE Len(vt[last.p_cache][last.B].list)

\* C8: k tangency points give k + 1 arcs; no tangency gives the one arc from
\* t = 0 to t = 1, one tangency gives two arcs that meet in the tangency
\* point.
C8_ArcCount ==
  Called =>
    /\ Len(out) = TangenciesUsed + 1
    /\ (TangenciesUsed = 0 =>
          /\ out[1].ps = Point_2_Rational(last.B, 0)
          /\ out[1].pt = Point_2_Rational(last.B, TDen))
    /\ (TangenciesUsed = 1 =>
          /\ out[1].pt = out[2].ps
          /\ IF last.app_ok
               THEN /\ ParamLo(out[1].pt) = last.tang_bounds[1].first.t_min
                    /\ ParamHi(out[1].pt) = last.tang_bounds[1].first.t_max
               ELSE out[1].pt.t = vt[last.p_cache][last.B].list[1])

\* C8 witness: one tangency candidate, two arcs, on the fast path.
C8_Witness ==
  /\ Called /\ last.app_ok
  /\ Len(last.tang_bounds) = 1
  /\ Len(out) = 2

\* The output is the complete exact decomposition of the curve decomposed.
FullExactDecomposition ==
  LET vt_list == x_polynomial_roots(last.B)
  IN  /\ Len(out) = Len(vt_list) + 1
      /\ ret >= Len(vt_list)
      /\ out[1].ps.t = 0
      /\ out[Len(out)].pt.t = TDen
      /\ \A k \in 1..Len(vt_list) :
           out[k].pt.t = vt_list[k] /\ out[k + 1].ps.t = vt_list[k]

\* C9: a candidate that cannot be refined is not surfaced: every call whose
\* candidate list holds such a candidate ends as a completed call that has
\* written the complete exact decomposition.
C9_FailureNotSurfaced ==
  [][Unrefinable(arg.tang_bounds) =>
       /\ Called'
       /\ last'.B = arg.B /\ last'.tang_bounds = arg.tang_bounds
       /\ FullExactDecomposition']_vars

\* C9 witness: every candidate is unrefinable and the curve has two exact
\* tangencies.
C9_Witness ==
  /\ Called /\ Len(last.tang_bounds) >= 2
  /\ \A k \in 1..Len(last.tang_bounds) : ~ last.tang_bounds[k].first.can_refine
  /\ Len(out) = 3

\* ===================================================================
\* Properties of the facade's ownership of its tables
\* ===================================================================
\* Instance i was created by the default constructor: it allocated the
\* tables named i.
DefaultConstructed(i) == life[i] # "unborn" /\ heapC[i] # "free"

Released(c) == heapC[c] \in {"deleted", "deleted2"}

\* C4 (as claimed): once an instance created by the default constructor is
\* destroyed, the cache and the intersection map it allocated are released.
C4_DestroyedOwnerReleased ==
  \A i \in Insts :
    (life[i] = "dead" /\ DefaultConstructed(i)) =>
      heapC[i] # "alloc" /\ heapM[i] # "alloc"

\* C5: the destruction of an instance that does not own its tables deletes
\* nothing, leaves the contents of every cache as they are and leaves the
\* other instances and their table references untouched (checked under
\* SpecShare).
C5_AliasDestroyFrame ==
  [][\A i \in Insts :
       (life[i] = "live" /\ ~ _owner[i] /\ life'[i] = "dead") =>
         /\ heapC' = heapC /\ heapM' = heapM
         /\ vt' = vt /\ solves' = solves
         /\ ix' = ix /\ isolves' = isolves /\ inter_points' = inter_points
         /\ \A j \in Insts \ {i} :
              /\ life'[j] = life[j]
              /\ _cache'[j] = _cache[j]
              /\ _inter_map'[j] = _inter_map[j]
              /\ _owner'[j] = _owner[j]]_vars

\* C5 witness: a copy-constructed instance is dead while another instance
\* still refers to allocated tables that hold an entry.
C5_Witness ==
  \E i, j \in Insts :
    /\ life[i] = "dead" /\ ~ DefaultConstructed(i)
    /\ life[j] = "live"
    /\ heapC[_cache[j]] = "alloc" /\ heapM[_inter_map[j]] = "alloc"
    /\ \E B \in Curves : vt[_cache[j]][B].present

\* C6 (as claimed): every live instance refers to a cache and an
\* intersection map that have not been deleted.
C6_NoDanglingAlias ==
  \A i \in Insts :
    life[i] = "live" =>
      heapC[_cache[i]] = "alloc" /\ heapM[_inter_map[i]] = "alloc"

SameTables(j, i) == _cache[j] = _cache[i] /\ _inter_map[j] = _inter_map[i]

\* C7: copy construction and assignment make the target refer to the very
\* tables of the source and change no other instance's references (so a
\* chain of copies shares one pair of tables); a functor handed out by an
\* instance is bound to that instance's tables; and once a call has added a
\* tangency list to a cache, the functor of every instance referring to that
\* cache finds the list without computing it again (checked under SpecShare).
C7_SharedTables ==
  [][/\ \A j, i \in Insts :
          (CopyConstruct(j, i) \/ (j # i /\ Assign(j, i))) =>
            /\ SameTables(j, i)'
            /\ \A k \in Insts \ {j} :
                 _cache'[k] = _cache[k] /\ _inter_map'[k] = _inter_map[k]
     /\ \A i \in Insts :
          make_x_monotone_2_object(i) => fun'.p_cache = _cache[i]
     /\ \A i \in Insts :
          intersect_2_object(i) =>
            fun'.p_cache = _cache[i] /\ fun'.p_imap = _inter_map[i]
     /\ (vt' # vt /\ Called' /\ last' # last) =>
          \A k \in Insts :
            (life[k] = "live" /\ _cache[k] = fun.p_cache) =>
              LET f == Make_x_monotone_2(_cache'[k])
                  q == get_vertical_tangencies(vt'[f.p_cache],
                                               solves'[f.p_cache], last'.B)
              IN  /\ vt'[f.p_cache][last'.B].present
                  /\ q.vt_list = last'.vt_list
                  /\ q.count = solves'[f.p_cache]]_vars

\* C7 witness: two live instances share their tables, the functor handed
\* out is bound to them and the shared cache holds an entry.
C7_Witness ==
  \E i, j \in Insts :
    /\ i # j /\ life[i] = "live" /\ life[j] = "live"
    /\ SameTables(i, j)
    /\ fun.kind = "Make_x_monotone_2" /\ fun.p_cache = _cache[i]
    /\ \E B \in Curves : vt[_cache[i]][B].present

\* C10: the cache queries are idempotent.  Every query of a key the cache
\* already holds returns the stored sequence (same elements, same order,
\* same size) and leaves the cache and its computation counters unchanged;
\* a query of a key the cache does not hold stores exactly the sequence it
\* returns; a second query from the resulting cache returns the same
\* sequence and the same cache; and no key is ever computed more than once.
C10_CacheIdempotent ==
  [][ /\ \A c \in Tables :
           /\ \A B \in Curves : solves'[c][B] <= 1
           /\ \A key \in Pairs : isolves'[c][key] <= 1
      /\ (last'.op = "Make_x_monotone_2" /\ last'.vt_calls = 1) =>
           LET c == last'.p_cache
               B == last'.B
               again == get_vertical_tangencies(vt'[c], solves'[c], B)
           IN  /\ vt[c][B].present =>
                    /\ last'.vt_list = vt[c][B].list
                    /\ vt' = vt /\ solves' = solves
               /\ vt'[c][B] = Entry(last'.vt_list)
               /\ again.vt_list = last'.vt_list
               /\ again.table = vt'[c] /\ again.count = solves'[c]
      /\ (last'.op = "Intersect_2" /\ last'.cv1.curve # last'.cv2.curve) =>
           LET c == last'.p_cache
               key == Key(last'.cv1.curve, last'.cv2.curve)
               again == get_intersections(ix'[c], isolves'[c], key)
           IN  /\ ix[c][key].present =>
                    /\ last'.list = ix[c][key].list
                    /\ ix' = ix /\ isolves' = isolves
               /\ ix'[c][key] = Entry(last'.list)
               /\ again.list = last'.list
               /\ again.table = ix'[c] /\ again.count = isolves'[c]
    ]_vars

\* A repeated tangency query has been answered from the cache, and the
\* cache also holds an intersection list.
C10_Witness ==
  /\ last.op = "Make_x_monotone_2" /\ last.vt_calls = 1 /\ last.hit
  /\ Len(last.vt_list) > 0
  /\ solves[last.p_cache][last.B] = 1
  /\ \E key \in Pairs :
       /\ ix[last.p_cache][key].present
       /\ isolves[last.p_cache][key] = 1

\* ===================================================================
\* Properties of the cache tables (checked under SpecCache)
\* ===================================================================
\* Some live instance owns cache c.
OwnerAlive(c) ==
  \E i \in Insts : life[i] = "live" /\ _owner[i] /\ _cache[i] = c

\* C11: the cache is append-only.  Whatever operation is issued through the
\* functors of whichever facade, a key held by a cache table before the
\* step is held after it with the same list, as long as the owner of the
\* cache is alive before and after the step.
C11_AppendOnly ==
  [][\A c \in Tables :
       (OwnerAlive(c) /\ OwnerAlive(c)') =>
         /\ \A B \in Curves :
              vt[c][B].present => vt'[c][B] = vt[c][B]
         /\ \A key \in Pairs :
              ix[c][key].present => ix'[c][key] = ix[c][key]]_vars

\* C11 witness: the cache of a live owner has accumulated two tangency lists
\* and an intersection list.
C11_Witness ==
  \E c \in Tables :
    /\ OwnerAlive(c)
    /\ \E B1, B2 \in Curves :
         B1 # B2 /\ vt[c][B1].present /\ vt[c][B2].present
    /\ \E key \in Pairs : ix[c][key].present
    /\ last.op = "Intersect_2" /\ ~ last.solved

\* The last call intersected arcs of two distinct curves.
IntersectedPair ==
  last.op = "Intersect_2" /\ last.cv1.curve # last.cv2.curve

\* The arc of the Intersect_2 call l that lies on curve B.
ArcOn(l, B) == IF l.cv1.curve = B THEN l.cv1 ELSE l.cv2

\* C12: for two distinct curves the exact system is solved at most once.  A
\* call of Intersect_2 on arcs of the pair, in either argument order and for
\* any sub-ranges, solves it only if the cache does not hold the pair yet;
\* afterwards the pair has been solved exactly once, and the points written
\* are exactly the entries of the cached list that fall into both arcs'
\* ranges, in the order of the list, also when there is none.
C12_SolveOnce ==
  [][IntersectedPair' =>
       LET c == last'.p_cache
           key == Key(last'.cv1.curve, last'.cv2.curve)
       IN  /\ isolves'[c][key] =
                isolves[c][key] + (IF ix[c][key].present THEN 0 ELSE 1)
           /\ isolves'[c][key] = 1
           /\ ix'[c][key].present
           /\ [k \in 1..Len(out') |->
                 <<ParamOn(out'[k], key[1]), ParamOn(out'[k], key[2])>>]
                = SelectSeq(ix'[c][key].list, LAMBDA st :
                              /\ InRange(ArcOn(last', key[1]), st[1])
                              /\ InRange(ArcOn(last', key[2]), st[2]))]_vars

\* C12 witness: a repeated query of a pair, with the arcs given in
\* descending order of their curve ids, finds nothing in the arcs' ranges
\* and does not solve the system again.
C12_Witness ==
  /\ IntersectedPair /\ ~ last.solved
  /\ last.cv1.curve > last.cv2.curve
  /\ out = <<>>
  /\ isolves[last.p_cache][Key(last.cv1.curve, last.cv2.curve)] = 1

\* ===================================================================
\* Properties of the comparison predicates (checked under SpecCmp)
\* ===================================================================
Compared == last.op \in {"Compare_x_2", "Compare_xy_2"}

\* The order of two integers as a Comparison_result.
Order(a, b) == IF a < b THEN "SMALLER" ELSE IF a > b THEN "LARGER" ELSE "EQUAL"

\* The comparison of the isolated positions of two points.
ExactCompare(kind, p1, p2) ==
  LET rx == Order(X(p1.curve, p1.t0), X(p2.curve, p2.t0))
  IN  IF kind = "Compare_x_2" \/ rx # "EQUAL" THEN rx
      ELSE Order(Y(p1.curve, p1.t0), Y(p2.curve, p2.t0))

\* C13: comparisons are stable under refinement.  Every step, a comparison
\* or a refinement, replaces the bound of a point by a sub-interval of its
\* previous bound and leaves its curve and its isolated parameter alone; and
\* every comparison returns the order of the isolated positions of its two
\* points, which no step changes, so that the same two points compare the
\* same at every call.
C13_CompareStable ==
  [][/\ DOMAIN points' = DOMAIN points
     /\ \A i \in DOMAIN points :
          /\ points[i].t_min <= points'[i].t_min
          /\ points'[i].t_max <= points[i].t_max
          /\ points'[i].curve = points[i].curve
          /\ points'[i].t0 = points[i].t0
     /\ Compared' =>
          /\ last'.res = ExactCompare(last'.op, points[last'.p1],
                                      points[last'.p2])
          /\ last'.res = ExactCompare(last'.op, points'[last'.p1],
                                      points'[last'.p2])]_vars

\* C13 witness: a comparison has refined its points and was decided by
\* their bounds before both of them were exact.
C13_Witness ==
  /\ Compared /\ last.refined /\ last.res # "EQUAL"
  /\ \E i \in {last.p1, last.p2} : ~ IsExact(points[i])

\* ===================================================================
\* Properties of the arc operations (checked under SpecArc)
\* ===================================================================
\* C14: split and merge are inverse.  After Split_2 has split an arc cv at a
\* point p strictly inside it, the first part has p as its right endpoint
\* and the second part has p as its left endpoint, the two parts are
\* mergeable in either order, and merging them in either order gives an arc
\* equal to cv; Are_mergeable_2 and Merge_2 called on the parts answer
\* accordingly.
C14_SplitMergeInverse ==
  /\ last.op = "Split_2" =>
       /\ Len(out) = 2
       /\ SamePoint(right(out[1]), last.p)
       /\ SamePoint(left(out[2]), last.p)
       /\ SamePoint(left(out[1]), left(last.cv))
       /\ SamePoint(right(out[2]), right(last.cv))
       /\ can_merge_with(out[1], out[2]) /\ can_merge_with(out[2], out[1])
       /\ equals(merge(out[1], out[2]), last.cv)
       /\ equals(merge(out[2], out[1]), last.cv)
  /\ last.op = "Are_mergeable_2" => last.res
  /\ last.op = "Merge_2" => Len(out) = 1 /\ equals(out[1], arg.cv)

\* C14 witness: an arc directed left has been split and its parts, given in
\* the order right part, left part, have been merged.
C14_Witness ==
  /\ last.op = "Merge_2"
  /\ ~ is_directed_right(arg.cv)
  /\ SamePoint(left(last.cv1), arg.p)
  /\ Len(out) = 1

\* ===================================================================
\* Further properties of Make_x_monotone_2 (checked under SpecMxm)
\* ===================================================================
\* The candidate the k-th tangency point of the fast path was built from:
\* the point carries the candidate's bounding box, which names it.
CandidateOf(k) == last.tang_bounds[out[k].pt.bbox].first

\* C15: on the fast path the candidates are consumed in ascending order of
\* t_min, whatever their order in the collaborator's list: the k-th arc ends
\* in the point built from the candidate with the k-th smallest t_min, every
\* candidate is consumed once, and the arcs written follow that order.
C15_AscendingConsumption ==
  (Called /\ last.app_ok) =>
    /\ Len(out) = Len(last.tang_bounds) + 1
    /\ \A k \in 1..Len(last.tang_bounds) :
         /\ out[k].pt.bbox \in 1..Len(last.tang_bounds)
         /\ ParamLo(out[k].pt) = CandidateOf(k).t_min
         /\ Cardinality({ n \in 1..Len(last.tang_bounds) :
                            last.tang_bounds[n].first.t_min
                              < CandidateOf(k).t_min }) = k - 1
         /\ out[k + 1].ps = out[k].pt
    /\ \A k1, k2 \in 1..Len(last.tang_bounds) :
         k1 < k2 => /\ out[k1].pt.bbox # out[k2].pt.bbox
                    /\ ParamLo(out[k1].pt) <= ParamLo(out[k2].pt)

\* C15 witness: three candidates handed over as middle, largest, smallest
\* t_min have been consumed on the fast path, smallest first.
C15_Witness ==
  /\ Called /\ last.app_ok
  /\ Len(last.tang_bounds) = 3
  /\ last.tang_bounds[3].first.t_min < last.tang_bounds[1].first.t_min
  /\ last.tang_bounds[1].first.t_min < last.tang_bounds[2].first.t_min
  /\ <<out[1].pt.bbox, out[2].pt.bbox, out[3].pt.bbox>> = <<3, 1, 2>>

\* C16: a call queries the cache for the exact tangency list exactly once
\* if some candidate of the collaborator's list has can_refine = false, and
\* not at all otherwise (every candidate refinable, or no candidate): then
\* the call is served by the fast path and the cache holds and has computed
\* nothing.
C16_QueryIffUnrefinable ==
  Called =>
    /\ last.app_ok = ~ Unrefinable(last.tang_bounds)
    /\ last.vt_calls = IF Unrefinable(last.tang_bounds) THEN 1 ELSE 0
    /\ Unrefinable(last.tang_bounds) =>
         /\ vt[last.p_cache][last.B] = Entry(last.vt_list)
         /\ solves[last.p_cache][last.B] = 1
    /\ ~ Unrefinable(last.tang_bounds) =>
         /\ vt[last.p_cache] = EmptyTable
         /\ solves[last.p_cache] = NoSolves

\* C16 witness: the only unrefinable candidate is the one with the largest
\* t_min of three, met after two refinable ones have been consumed; the
\* cache has been queried once.
C16_Witness ==
  /\ Called /\ Len(last.tang_bounds) = 3
  /\ \E k \in 1..3 :
       /\ ~ last.tang_bounds[k].first.can_refine
       /\ \A n \in (1..3) \ {k} :
            /\ last.tang_bounds[n].first.can_refine
            /\ last.tang_bounds[n].first.t_min < last.tang_bounds[k].first.t_min
  /\ last.vt_calls = 1 /\ ~ last.app_ok
  /\ solves[last.p_cache][last.B] = 1

\* The candidate with the k-th smallest t_min of the last call's list.
KthCandidate(k) ==
  LET tb == last.tang_bounds
  IN  tb[CHOOSE n \in 1..Len(tb) :
           Cardinality({ m \in 1..Len(tb) :
                           tb[m].first.t_min < tb[n].first.t_min }) = k - 1]

\* C17: candidates that can all be refined are served by the fast path,
\* collapsed ones included, and each is materialized according to its kind:
\* a candidate of type RATIONAL_PT becomes the exact point of the curve at
\* the rational parameter t_min, with no originator; any other candidate
\* becomes an approximate point with exactly one originator, this curve
\* with this bound; either point carries the candidate's bounding box.
C17_MaterializedByKind ==
  Called =>
    /\ ~ Unrefinable(last.tang_bounds) => last.app_ok
    /\ last.app_ok =>
         \A k \in 1..Len(last.tang_bounds) :
           LET cand == KthCandidate(k)
               p == out[k].pt
           IN  /\ p.bbox = cand.second
               /\ IF cand.first.point_type = "RATIONAL_PT"
                    THEN /\ p.exact /\ p.nt = "Rational"
                         /\ p.curve = last.B /\ p.t = cand.first.t_min
                         /\ p.originators = <<>>
                    ELSE /\ ~ p.exact
                         /\ p.originators = <<Originator(last.B, cand.first)>>

\* C17 witness: the fast path has materialized a collapsed candidate and a
\* candidate with a proper interval.
C17_Witness ==
  /\ Called /\ last.app_ok
  /\ \E k1, k2 \in 1..Len(last.tang_bounds) :
       /\ last.tang_bounds[k1].first.point_type = "RATIONAL_PT"
       /\ last.tang_bounds[k2].first.point_type = "VERTICAL_TANGENCY_PT"
       /\ last.tang_bounds[k2].first.t_min < last.tang_bounds[k2].first.t_max
  /\ \E k \in 1..(Len(out) - 1) : out[k].pt.exact
  /\ \E k \in 1..(Len(out) - 1) : ~ out[k].pt.exact

\* The lexicographic order of two exact points, by x and then by y.
OrderXY(p, q) ==
  IF X(p.curve, p.t) # X(q.curve, q.t)
    THEN Order(X(p.curve, p.t), X(q.curve, q.t))
    ELSE Order(Y(p.curve, p.t), Y(q.curve, q.t))

Reverse(res) ==
  IF res = "SMALLER" THEN "LARGER"
  ELSE IF res = "LARGER" THEN "SMALLER" ELSE "EQUAL"

\* C18: Compare_endpoints_xy_2 returns the lexicographic order of source
\* and target: SMALLER exactly when the arc is directed right, LARGER
\* otherwise, never EQUAL.  Construct_opposite_2 swaps source and target on
\* the same curve: the result compares the opposite way, has the min and
\* max vertices of the argument and is equal to it as an arc, and its own
\* opposite has the direction of the argument.
C18_EndpointsAndOpposite ==
  /\ last.op = "Compare_endpoints_xy_2" =>
       /\ last.res \in {"SMALLER", "LARGER"}
       /\ last.res = OrderXY(last.cv.ps, last.cv.pt)
       /\ (last.res = "SMALLER") = is_directed_right(last.cv)
       /\ Compare_endpoints_xy_2(Construct_opposite_2(last.cv))
            = Reverse(last.res)
  /\ last.op = "Construct_opposite_2" =>
       LET cv == last.cv
           o == out[1]
       IN  /\ Len(out) = 1
           /\ o.curve = cv.curve /\ o.ps = cv.pt /\ o.pt = cv.ps
           /\ Compare_endpoints_xy_2(o) = Reverse(Compare_endpoints_xy_2(cv))
           /\ left(o) = left(cv) /\ right(o) = right(cv)
           /\ equals(o, cv)
           /\ is_directed_right(Construct_opposite_2(o))
                = is_directed_right(cv)
           /\ Construct_opposite_2(o) = cv

\* C18 witness: the opposite of an arc that runs right with decreasing
\* parameter has been constructed, and it is directed left.
C18_Witness ==
  /\ last.op = "Construct_opposite_2"
  /\ is_directed_right(last.cv) /\ last.cv.ps.t > last.cv.pt.t
  /\ Compare_endpoints_xy_2(out[1]) = "LARGER"

\* The live instances whose owner flag is set and that refer to the cache
\* or to the intersection map named c.
LiveOwners(c) ==
  { i \in Insts :
      life[i] = "live" /\ _owner[i] /\ (_cache[i] = c \/ _inter_map[i] = c) }

\* C19: each allocated cache / intersection-map pair has at most one live
\* instance whose owner flag is set, and no cache and no intersection map
\* is deleted a second time.
C19_SingleOwner ==
  \A c \in Tables :
    /\ Cardinality(LiveOwners(c)) <= 1
    /\ heapC[c] # "deleted2" /\ heapM[c] # "deleted2"

\* C19 witness: a live owner shares its allocated pair with a live alias
\* while another pair has been released by the destruction of its owner.
C19_Witness ==
  \E i, j, k \in Insts :
    /\ i # j /\ life[i] = "live" /\ life[j] = "live"
    /\ _owner[i] /\ ~ _owner[j] /\ SameTables(j, i)
    /\ heapC[_cache[i]] = "alloc" /\ heapM[_inter_map[i]] = "alloc"
    /\ life[k] = "dead" /\ heapC[k] = "deleted" /\ heapM[k] = "deleted"

\* C20: an owner flag becomes set only in the step that default-constructs
\* the instance, and an instance whose flag is set still refers to the
\* tables it allocated; assignment from a different instance leaves the
\* target without the flag and referring to the tables of the source,
\* whatever the flags of the two were; self-assignment leaves the table
\* references and the owner flag of the instance as they are.
C20_NoOwnershipTransfer ==
  [][/\ \A i \in Insts :
          /\ (_owner'[i] /\ ~ _owner[i]) => DefaultConstruct(i)
          /\ _owner'[i] =>
               /\ DefaultConstructed(i)'
               /\ _cache'[i] = i /\ _inter_map'[i] = i
     /\ \A j, i \in Insts :
          (j # i /\ Assign(j, i)) =>
            /\ ~ _owner'[j]
            /\ _cache'[j] = _cache[i] /\ _inter_map'[j] = _inter_map[i]
            /\ _owner'[i] = _owner[i]
     /\ \A j \in Insts :
          Assign(j, j) =>
            /\ _cache'[j] = _cache[j] /\ _inter_map'[j] = _inter_map[j]
            /\ _owner'[j] = _owner[j]]_vars

\* C20 witness: an instance that allocated tables of its own has been
\* assigned from a different instance that owns its tables: the target has
\* lost its flag and refers to the tables of the source, which keeps its
\* flag.
C20_Witness ==
  \E j, i \in Insts :
    /\ j # i /\ life[j] = "live" /\ life[i] = "live"
    /\ DefaultConstructed(j) /\ DefaultConstructed(i)
    /\ ~ _owner[j] /\ _owner[i]
    /\ _cache[j] = i /\ _inter_map[j] = i
====
